---- MODULE Spec2Model ----
(***************************************************************************)
(* Configuration validation (config.py) and the Firestore client wrapper   *)
(* (firebase_client.py) of the autonomous generative trading system.       *)
(*                                                                         *)
(* The process imports config (which builds and validates the global       *)
(* Config), after which threads construct FirebaseClient objects, call     *)
(* _initialize() again on existing objects, and call get_collection().     *)
(* _initialize() is modelled statement by statement, so that interleavings *)
(* of concurrent calls are visible.                                        *)
(***************************************************************************)
EXTENDS Integers, FiniteSets, Sequences, TLC

\* ------------------------------------------------------------------ bounds
NumThreads == 2
NumManagers == 2
MaxCalls == 3

Threads == 1..NumThreads
Managers == 1..NumManagers

\* ------------------------------------------------------------------ values
NoConfig == [loaded |-> FALSE]
NoObject == [allocated |-> FALSE]
NoClient == 0
NoError == [type |-> "none"]
NoOutcome == [kind |-> "none"]
DefaultApp == "[DEFAULT]"

\* Values an environment variable may hold after os.getenv's default of "".
EnvValues(nonEmpty) == {"", nonEmpty}

\* The environment the process is started in.
Environments ==
    [project_id : EnvValues("proj-1"), api_key : EnvValues("k"),
     api_secret : EnvValues("s"), private_key : EnvValues("key-pem")]

VARIABLES
    env,          \* the process environment (fixed for the process lifetime)
    phase,        \* "start" | "imported" | "aborted": the import of config
    config,       \* the global config instance, NoConfig until it is built
    importError,  \* the exception that aborted the import of config
    apps,         \* firebase_admin._apps: names of the registered applications
    fsService,    \* the Firestore client cached on the default application
    certCalls,    \* number of credentials.Certificate(...) calls made
    appCalls,     \* number of firebase_admin.initialize_app(...) calls made
    appsCreated,  \* number of applications initialize_app registered
    mgr,          \* FirebaseClient objects: NoObject or [client, initialized]
    ctor,         \* per object: "none" | "running" | "returned" | "raised"
    initRaised,   \* per object: some _initialize() call on it has raised
    pc,           \* per thread: the statement it is about to execute
    self,         \* per thread: the object its current call runs on
    op,           \* per thread: "ctor" (inside __init__) or "call"
    path,         \* per thread: the branch its call took at the registry check
    calls,        \* number of method calls started so far
    last          \* the outcome of the call that completed most recently

vars == <<env, phase, config, importError, apps, fsService, certCalls, appCalls,
          appsCreated, mgr, ctor, initRaised, pc, self, op, path, calls, last>>

libVars == <<apps, fsService, certCalls, appCalls, appsCreated>>
cfgVars == <<env, phase, config, importError>>

\* ------------------------------------------------------------------ config.py

\* Python truthiness of a str: `not s` holds exactly for the empty string.
IsEmpty(s) == s = ""

\* FirebaseConfig() / TradingConfig(): the fields read from the environment.
LoadConfig(e) ==
    [loaded |-> TRUE,
     firebase |-> [project_id |-> e.project_id, private_key |-> e.private_key],
     trading |-> [api_key |-> e.api_key, api_secret |-> e.api_secret]]

\* The two ValueErrors of _validate_config, with the settings each message names.
ProjectIdError ==
    [type |-> "ValueError", origin |-> "_validate_config",
     message |-> "FIREBASE_PROJECT_ID must be set in environment variables",
     names |-> {"project_id"}]
ExchangeCredentialsError ==
    [type |-> "ValueError", origin |-> "_validate_config",
     message |-> "Exchange API credentials must be set",
     names |-> {"api_key", "api_secret"}]

\* Mutant: the exchange credentials are checked before the project id.
ValidateConfig_CredentialsFirst(cfg) ==
    IF IsEmpty(cfg.trading.api_key) \/ IsEmpty(cfg.trading.api_secret)
    THEN ExchangeCredentialsError
    ELSE IF IsEmpty(cfg.firebase.project_id) THEN ProjectIdError ELSE NoError

\* Config._validate_config: NoError when it returns, else the exception raised.
ValidateConfig(cfg) ==
    IF IsEmpty(cfg.firebase.project_id) THEN ProjectIdError
    ELSE IF IsEmpty(cfg.trading.api_key) \/ IsEmpty(cfg.trading.api_secret)
         THEN ExchangeCredentialsError
         ELSE NoError

\* `from config import config`: the module body runs config = Config(), whose
\* __init__ builds the sub-configurations and validates them.  An exception
\* leaves the global unbound and aborts the import (and every importer).
ImportConfig ==
    /\ phase = "start"
    /\ LET cfg == LoadConfig(env)
           err == ValidateConfig(cfg)
       IN  IF err = NoError
           THEN /\ config' = cfg
                /\ importError' = NoError
                /\ phase' = "imported"
           ELSE /\ config' = NoConfig
                /\ importError' = err
                /\ phase' = "aborted"
    /\ UNCHANGED <<env, libVars, mgr, ctor, initRaised, pc, self, op, path, calls, last>>

\* ------------------------------------------------------------------ firebase_client.py

\* The exceptions the external calls of _initialize raise.
CertificateError == [type |-> "ValueError", origin |-> "Certificate"]
AppExistsError == [type |-> "ValueError", origin |-> "initialize_app"]
ClientError == [type |-> "ValueError", origin |-> "firestore.client"]

\* credentials.Certificate(cred_dict) accepts the key material or raises.
CertificateAccepts(cfg) == ~IsEmpty(cfg.firebase.private_key)

Raised(t, exc) ==
    [kind |-> "raise", thread |-> t, mgr |-> self[t], op |-> op[t], path |-> path[t],
     exc |-> exc]
Returned(t) ==
    [kind |-> "return", thread |-> t, mgr |-> self[t], op |-> op[t], path |-> path[t]]

\* Mutant: the except block logs the exception and swallows it.
Reraise_Swallowed(t, exc) ==
    /\ last' = Returned(t)
    /\ initRaised' = initRaised
    /\ ctor' = IF op[t] = "ctor" THEN [ctor EXCEPT ![self[t]] = "returned"] ELSE ctor
    /\ pc' = [pc EXCEPT ![t] = "idle"]

\* Mutant: the except block raises a new error that wraps the one it caught.
Reraise_Wrapped(t, exc) ==
    /\ last' = Raised(t, [type |-> "InitializationError", origin |-> "_initialize",
                          cause |-> exc])
    /\ initRaised' = [initRaised EXCEPT ![self[t]] = TRUE]
    /\ ctor' = IF op[t] = "ctor" THEN [ctor EXCEPT ![self[t]] = "raised"] ELSE ctor
    /\ pc' = [pc EXCEPT ![t] = "idle"]

\* The except block of _initialize logs and re-raises the exception it caught;
\* raised inside __init__, it propagates out of the constructor.
Reraise(t, exc) ==
    /\ last' = Raised(t, exc)
    /\ initRaised' = [initRaised EXCEPT ![self[t]] = TRUE]
    /\ ctor' = IF op[t] = "ctor" THEN [ctor EXCEPT ![self[t]] = "raised"] ELSE ctor
    /\ pc' = [pc EXCEPT ![t] = "idle"]

\* Mutant: the class is usable without the import of config having succeeded.
Construct_WithoutConfig(t) ==
    /\ pc[t] = "idle"
    /\ calls < MaxCalls
    /\ \E m \in Managers :
        /\ mgr[m] = NoObject
        /\ \A k \in Managers : k < m => mgr[k] # NoObject
        /\ mgr' = [mgr EXCEPT ![m] = [client |-> NoClient, initialized |-> FALSE]]
        /\ ctor' = [ctor EXCEPT ![m] = "running"]
        /\ self' = [self EXCEPT ![t] = m]
    /\ op' = [op EXCEPT ![t] = "ctor"]
    /\ path' = [path EXCEPT ![t] = "none"]
    /\ pc' = [pc EXCEPT ![t] = "new"]
    /\ calls' = calls + 1
    /\ UNCHANGED <<cfgVars, libVars, initRaised, last>>

\* FirebaseClient(): __init__ sets client = None and initialized = False.
Construct(t) ==
    /\ phase = "imported"
    /\ pc[t] = "idle"
    /\ calls < MaxCalls
    /\ \E m \in Managers :
        /\ mgr[m] = NoObject
        /\ \A k \in Managers : k < m => mgr[k] # NoObject
        /\ mgr' = [mgr EXCEPT ![m] = [client |-> NoClient, initialized |-> FALSE]]
        /\ ctor' = [ctor EXCEPT ![m] = "running"]
        /\ self' = [self EXCEPT ![t] = m]
    /\ op' = [op EXCEPT ![t] = "ctor"]
    /\ path' = [path EXCEPT ![t] = "none"]
    /\ pc' = [pc EXCEPT ![t] = "new"]
    /\ calls' = calls + 1
    /\ UNCHANGED <<cfgVars, libVars, initRaised, last>>

\* __init__ calls self._initialize().
CallInitialize(t) ==
    /\ pc[t] = "new"
    /\ pc' = [pc EXCEPT ![t] = "check"]
    /\ UNCHANGED <<cfgVars, libVars, mgr, ctor, initRaised, self, op, path, calls, last>>

\* Mutant: _initialize() returns at once on an object it has failed on before.
Reinitialize_NoRetry(t, m) ==
    /\ pc[t] = "idle"
    /\ calls < MaxCalls
    /\ ctor[m] \in {"returned", "raised"}
    /\ self' = [self EXCEPT ![t] = m]
    /\ op' = [op EXCEPT ![t] = "call"]
    /\ path' = [path EXCEPT ![t] = "none"]
    /\ IF initRaised[m] /\ ~mgr[m].initialized
       THEN /\ pc' = pc
            /\ last' = [kind |-> "raise", thread |-> t, mgr |-> m, op |-> "call",
                        path |-> "none", exc |-> CertificateError]
       ELSE /\ pc' = [pc EXCEPT ![t] = "check"]
            /\ last' = last
    /\ calls' = calls + 1
    /\ UNCHANGED <<cfgVars, libVars, mgr, ctor, initRaised>>

\* A further _initialize() call on an object whose constructor has finished.
\* The method takes no arguments and has no guard of its own, so it can be
\* called on any object, one whose constructor raised included.
Reinitialize(t, m) ==
    /\ pc[t] = "idle"
    /\ calls < MaxCalls
    /\ ctor[m] \in {"returned", "raised"}
    /\ self' = [self EXCEPT ![t] = m]
    /\ op' = [op EXCEPT ![t] = "call"]
    /\ path' = [path EXCEPT ![t] = "none"]
    /\ pc' = [pc EXCEPT ![t] = "check"]
    /\ calls' = calls + 1
    /\ UNCHANGED <<cfgVars, libVars, mgr, ctor, initRaised, last>>

\* Mutant: the registry is not consulted and the application always created.
RegistryEmpty_Unchecked == TRUE

\* `if not firebase_admin._apps:` -- the application is created only when the
\* registry is empty.
RegistryEmpty == apps = {}

CheckRegistry(t) ==
    /\ pc[t] = "check"
    /\ pc' = [pc EXCEPT ![t] = IF RegistryEmpty THEN "cred" ELSE "client"]
    /\ path' = [path EXCEPT ![t] = IF RegistryEmpty THEN "create" ELSE "skip"]
    /\ UNCHANGED <<cfgVars, libVars, mgr, ctor, initRaised, self, op, calls, last>>

\* cred_dict = {...}; cred = credentials.Certificate(cred_dict)
BuildCredentials(t) ==
    /\ pc[t] = "cred"
    /\ certCalls' = certCalls + 1
    /\ IF CertificateAccepts(config)
       THEN /\ pc' = [pc EXCEPT ![t] = "app"]
            /\ UNCHANGED <<initRaised, ctor, last>>
       ELSE Reraise(t, CertificateError)
    /\ UNCHANGED <<cfgVars, apps, fsService, appCalls, appsCreated, mgr, self, op, path, calls>>

\* firebase_admin.initialize_app(cred): registers the default application, or
\* raises ValueError when the default application is already registered.
InitializeApp(t) ==
    /\ pc[t] = "app"
    /\ appCalls' = appCalls + 1
    /\ IF DefaultApp \in apps
       THEN /\ Reraise(t, AppExistsError)
            /\ UNCHANGED <<apps, appsCreated>>
       ELSE /\ apps' = apps \cup {DefaultApp}
            /\ appsCreated' = appsCreated + 1
            /\ pc' = [pc EXCEPT ![t] = "client"]
            /\ UNCHANGED <<initRaised, ctor, last>>
    /\ UNCHANGED <<cfgVars, fsService, certCalls, mgr, self, op, path, calls>>

\* firestore.client(): the client of the default application.  The library
\* builds it on the first call (which may raise) and caches it on the
\* application; later calls return the cached object.
NewClientHandle == 1

\* Mutant: a new client is built on every call instead of the cached one
\* being asked for.
ObtainClient_Uncached(t) ==
    /\ pc[t] = "client"
    /\ fsService' = calls + 1
    /\ mgr' = [mgr EXCEPT ![self[t]].client = calls + 1]
    /\ pc' = [pc EXCEPT ![t] = "flag"]
    /\ UNCHANGED <<cfgVars, apps, certCalls, appCalls, appsCreated, initRaised, ctor, last,
                   self, op, path, calls>>

\* Mutant: the readiness flag is set before the client is obtained.
ObtainClient_FlagFirst(t) ==
    /\ pc[t] = "client"
    /\ \/ /\ fsService' = NewClientHandle
          /\ mgr' = [mgr EXCEPT ![self[t]] = [client |-> NewClientHandle,
                                              initialized |-> TRUE]]
          /\ pc' = [pc EXCEPT ![t] = "flag"]
          /\ UNCHANGED <<initRaised, ctor, last>>
       \/ /\ fsService = NoClient
          /\ mgr' = [mgr EXCEPT ![self[t]].initialized = TRUE]
          /\ Reraise(t, ClientError)
          /\ UNCHANGED fsService
    /\ UNCHANGED <<cfgVars, apps, certCalls, appCalls, appsCreated, self, op, path, calls>>

\* self.client = firestore.client()
ObtainClient(t) ==
    /\ pc[t] = "client"
    /\ \/ /\ fsService # NoClient
          /\ mgr' = [mgr EXCEPT ![self[t]].client = fsService]
          /\ pc' = [pc EXCEPT ![t] = "flag"]
          /\ UNCHANGED <<fsService, initRaised, ctor, last>>
       \/ /\ fsService = NoClient
          /\ fsService' = NewClientHandle
          /\ mgr' = [mgr EXCEPT ![self[t]].client = NewClientHandle]
          /\ pc' = [pc EXCEPT ![t] = "flag"]
          /\ UNCHANGED <<initRaised, ctor, last>>
       \/ /\ fsService = NoClient
          /\ Reraise(t, ClientError)
          /\ UNCHANGED <<fsService, mgr>>
    /\ UNCHANGED <<cfgVars, apps, certCalls, appCalls, appsCreated, self, op, path, calls>>

\* self.initialized = True, after which _initialize (and __init__) returns.
SetInitialized(t) ==
    /\ pc[t] = "flag"
    /\ mgr' = [mgr EXCEPT ![self[t]].initialized = TRUE]
    /\ ctor' = IF op[t] = "ctor" THEN [ctor EXCEPT ![self[t]] = "returned"] ELSE ctor
    /\ last' = Returned(t)
    /\ pc' = [pc EXCEPT ![t] = "idle"]
    /\ UNCHANGED <<cfgVars, libVars, initRaised, self, op, path, calls>>

\* The lifecycle state of an object, read off its fields and the calls on it:
\* Ready once initialized is set; otherwise Initializing while an _initialize()
\* call runs on it, Failed when such a call has raised, else Uninitialized.
State(m) ==
    IF mgr[m].initialized THEN "Ready"
    ELSE IF \E t \in Threads : self[t] = m /\ pc[t] \in {"check", "cred", "app", "client", "flag"}
         THEN "Initializing"
         ELSE IF initRaised[m] THEN "Failed" ELSE "Uninitialized"

\* The error an object stores about its last failed initialization: __init__
\* creates the attributes client and initialized and nothing else does.
StoredError(m) == IF "error" \in DOMAIN mgr[m] THEN mgr[m].error ELSE NoError

\* Mutant: the readiness flag is not consulted.
NotInitialized_Ignored(m) == FALSE

\* `if not self.initialized or ...`: the readiness guard of get_collection.
NotInitialized(m) == ~mgr[m].initialized

CollectionNames == {"trades", "strategies"}

NotReadyError(m) == [type |-> "NotReadyError", origin |-> "get_collection", state |-> State(m)]
Handle(t, m, name) ==
    [kind |-> "handle", thread |-> t, mgr |-> m, op |-> "get_collection",
     collection |-> name, client |-> mgr[m].client]

\* get_collection(collection_name): fails on an object that is not ready,
\* else returns the collection reference of the stored client.  It may be
\* called on any existing object, at any point of the calls of other threads.
GetCollection(t, m, name) ==
    /\ pc[t] = "idle"
    /\ calls < MaxCalls
    /\ mgr[m] # NoObject
    /\ calls' = calls + 1
    /\ last' = IF NotInitialized(m) \/ mgr[m].client = NoClient
               THEN [kind |-> "raise", thread |-> t, mgr |-> m, op |-> "get_collection",
                     exc |-> NotReadyError(m)]
               ELSE Handle(t, m, name)
    /\ UNCHANGED <<cfgVars, libVars, mgr, ctor, initRaised, pc, self, op, path>>

\* ------------------------------------------------------------------ specification

Init ==
    /\ env \in Environments
    /\ phase = "start"
    /\ config = NoConfig
    /\ importError = NoError
    /\ apps = {}
    /\ fsService = NoClient
    /\ certCalls = 0
    /\ appCalls = 0
    /\ appsCreated = 0
    /\ mgr = [m \in Managers |-> NoObject]
    /\ ctor = [m \in Managers |-> "none"]
    /\ initRaised = [m \in Managers |-> FALSE]
    /\ pc = [t \in Threads |-> "idle"]
    /\ self = [t \in Threads |-> 1]
    /\ op = [t \in Threads |-> "call"]
    /\ path = [t \in Threads |-> "none"]
    /\ calls = 0
    /\ last = NoOutcome

ThreadStep(t) ==
    \/ Construct(t)
    \/ CallInitialize(t)
    \/ \E m \in Managers : Reinitialize(t, m)
    \/ CheckRegistry(t)
    \/ BuildCredentials(t)
    \/ InitializeApp(t)
    \/ ObtainClient(t)
    \/ SetInitialized(t)
    \/ \E m \in Managers, name \in CollectionNames : GetCollection(t, m, name)

Next ==
    \/ ImportConfig
    \/ \E t \in Threads : ThreadStep(t)

Spec == Init /\ [][Next]_vars

\* The same program when calls are made one after another: a thread takes a
\* step only while every other thread is outside a call.
OthersIdle(t) == \A u \in Threads \ {t} : pc[u] = "idle"

NextSeq ==
    \/ ImportConfig
    \/ \E t \in Threads : OthersIdle(t) /\ ThreadStep(t)

SpecSeq == Init /\ [][NextSeq]_vars

\* ------------------------------------------------------------------ properties

Allocated == {m \in Managers : mgr[m] # NoObject}
RequiredPresent(e) ==
    ~IsEmpty(e.project_id) /\ ~IsEmpty(e.api_key) /\ ~IsEmpty(e.api_secret)

FirstMissing(e) ==
    IF IsEmpty(e.project_id) THEN "project_id"
    ELSE IF IsEmpty(e.api_key) THEN "api_key" ELSE "api_secret"

C6_ValidationFirst ==
    /\ (Allocated # {} \/ certCalls > 0 \/ appCalls > 0 \/ apps # {} \/ fsService # NoClient
          \/ \E t \in Threads : pc[t] # "idle")
         => (phase = "imported" /\ RequiredPresent(env) /\ config.loaded)
    /\ phase = "aborted" => (config = NoConfig /\ calls = 0 /\ last = NoOutcome)

C6_Witness ==
    /\ phase = "imported"
    /\ appsCreated = 1
    /\ \E m \in Managers : ctor[m] = "returned"

\* C10: an object whose constructor returned to its caller has
\* initialized = True and a client; a constructor that did not get that far
\* raised instead of returning.
C10_ReturnedIsReady ==
    \A m \in Allocated :
        /\ ctor[m] = "returned" => (mgr[m].initialized /\ mgr[m].client # NoClient)
        /\ ctor[m] = "raised" => initRaised[m]

C10_Witness ==
    \E m, k \in Allocated :
        /\ ctor[m] = "returned" /\ mgr[m].initialized
        /\ ctor[k] = "raised" /\ ~mgr[k].initialized

InitStages == {"check", "cred", "app", "client", "flag"}
FreshFields == [client |-> NoClient, initialized |-> FALSE]

\* A step in which credential construction or application creation fails.
CreationFails(t) == pc[t] \in {"cred", "app"} /\ pc'[t] = "idle"

C7_SkipAlwaysReady ==
    /\ appsCreated <= 1
    /\ (last.kind = "raise" /\ last.op # "get_collection") => last.path # "skip"

\* C7 (amended): with calls made one after another the application is created
\* at most once: once the registry holds an application no call constructs
\* credentials or calls initialize_app again; a call that finds it registered
\* goes from the check straight to the client factory, and ends Ready when
\* the client-factory call succeeds (the only error it can raise is the
\* client factory's).
C7_CreatedOnce ==
    [][/\ appsCreated' <= 1
       /\ appCalls' = appsCreated'
       /\ apps # {} => (apps' = apps /\ certCalls' = certCalls /\ appCalls' = appCalls)
       /\ \A t \in Threads :
            /\ (pc[t] = "check" /\ pc'[t] # "check" /\ apps # {}) =>
                   (pc'[t] = "client" /\ path'[t] = "skip")
            /\ (path[t] = "skip" /\ pc[t] \in InitStages /\ pc'[t] = "idle") =>
                   \/ last'.kind = "return" /\ State(self[t])' = "Ready"
                   \/ last'.kind = "raise" /\ last'.exc = ClientError]_vars

C7_Witness ==
    /\ last.kind = "return" /\ last.path = "skip" /\ last.op = "ctor"
    /\ appsCreated = 1 /\ certCalls = 1
    /\ \A m \in Allocated : mgr[m].initialized
    /\ Cardinality(Allocated) = 2

\* C8: under concurrent _initialize() calls the registry check and the
\* creation of the application act as one atomic step: no two callers are past
\* the check on the creating branch together, a caller on that branch still has
\* an empty registry before it, and no initialize_app call finds the
\* application already registered.
C8_CheckAndCreateAtomic ==
    /\ Cardinality({t \in Threads : pc[t] \in {"cred", "app"}}) <= 1
    /\ \A t \in Threads : pc[t] \in {"cred", "app"} => apps = {}
    /\ appCalls = appsCreated

====
